---- MODULE Spec2Model ----
(***************************************************************************)
(* The story-to-illustration pipeline of storybook-app:                    *)
(*   POST /api/generate-story   (src/app/api/generate-story/route.ts)      *)
(*   POST /api/generate-images  (src/app/api/delete-story/route.ts 71-463) *)
(*   DELETE /api/delete-story   (src/app/api/delete-story/route.ts 4-66)   *)
(*   the story page             (src/app/story/[id]/page.tsx)              *)
(*                                                                         *)
(* Text is a sequence of tokens.  A token is a word (only word characters),*)
(* a single non-word character, or the page-break marker; TokLen gives the *)
(* number of characters a token stands for.                                *)
(*                                                                         *)
(* Specifications:                                                         *)
(*   Spec          one generate-images batch of up to MaxPages pages       *)
(*   SpecPolling   a one-page batch polled up to the attempt ceiling       *)
(*   SpecStory     one generate-story request                              *)
(*   SpecPipeline  a story request, its background call, the story page    *)
(*   SpecPrompts   one generate-images call up to the prompt builder       *)
(*   SpecDelete    a delete-story request beside a generate-images call    *)
(*   SpecSettle    the batches of Spec and SpecPolling, requests returning *)
(***************************************************************************)
EXTENDS Naturals, Sequences, FiniteSets, TLC

\* ------------------------------------------------------------------ bounds

\* Largest number of pages of a story body handed to one illustration batch.
MaxPages == 2

\* In the specifications with concurrent pages: how many status requests in a
\* row the provider may answer with an unfinished job.
MaxPending == 2

\* Largest number of pieces, joined by markers or full stops, of a story body
\* handed to the prompt builder.
MaxPieces == 3

\* ---------------------------------------------------------------- constants

\* pollLeonardoGeneration: const maxAttempts = 30
maxAttempts == 30

\* title.substring(0, 100)
TitleLimit == 100

\* s.trim().length > 10 in the sentence fallback of generateImagePrompts
SentenceMin == 10

MARKER == "---PAGE BREAK---"

\* ------------------------------------------------------------ text helpers

IsSpace(t) == t \in {" ", "\n", "\t"}

\* The words of the vocabulary, by their number of characters.
WordsOfLen(n) ==
  CASE n = 2  -> {"My", "my", "Hi", "hi", "As", "as", "so", "In", "in"}
    [] n = 3  -> {"The", "the", "gun", "cut", "die", "hit", "Hit", "toy", "tap",
                  "red", "day", "and", "big", "And", "One", "one", "way"}
    [] n = 4  -> {"Once", "once", "upon", "time", "hurt", "pain", "tool", "leaf",
                  "play", "rest", "stop", "step", "poke", "kick", "wand", "kill",
                  "bump", "blue", "home", "they", "With", "with", "each", "days",
                  "cozy"}
    [] n = 5  -> {"knife", "Knife", "KNIFE", "blade", "sharp", "sword", "Sword",
                  "fight", "blood", "wound", "scary", "death", "punch", "magic",
                  "juice", "sleep", "catch", "touch", "story", "Story", "Title",
                  "title", "scene", "today", "place", "sunny", "Along", "along"}
    [] n = 6  -> {"Garden", "garden", "little", "friend", "weapon", "injury",
                  "danger", "terror", "murder", "attack", "strike", "shaped",
                  "forest", "knifes", "became"}
    [] n = 7  -> {"Magical", "magical", "cutting", "Family", "family", "pointed",
                  "scratch", "special", "Through", "through", "morning"}
    [] n = 8  -> {"violence", "approach", "explorer", "ventured", "returned"}
    [] n = 9  -> {"Adventure", "adventure", "preparing", "surprised", "challenge"}
    [] n = 10 -> {"Friendship", "friendship", "discomfort", "mysterious",
                  "excitement", "surprising"}
    [] n = 11 -> {"frightening"}
    [] OTHER  -> {}

\* Characters a token stands for: the marker's 16, a word's length, and 1 for
\* every other token (a single character).
TokLen(t) ==
  IF t \in {MARKER, "---page break---"} THEN 16
  ELSE IF \E n \in 2..11 : t \in WordsOfLen(n)
       THEN CHOOSE n \in 2..11 : t \in WordsOfLen(n)
       ELSE 1

\* Tokens that are not words: single non-word characters and the marker.
IsWord(t) == t \notin {" ", "\n", "\t", ".", "!", "?", "#", ",", "-", "\"", MARKER,
                       "---page break---"}

\* String.prototype.length
RECURSIVE StrLen(_)
StrLen(s) == IF s = <<>> THEN 0 ELSE TokLen(Head(s)) + StrLen(Tail(s))

RECURSIVE TrimStart(_)
TrimStart(s) ==
  IF s # <<>> /\ IsSpace(Head(s)) THEN TrimStart(Tail(s)) ELSE s

RECURSIVE TrimEnd(_)
TrimEnd(s) ==
  IF s # <<>> /\ IsSpace(s[Len(s)]) THEN TrimEnd(SubSeq(s, 1, Len(s) - 1)) ELSE s

\* String.prototype.trim
Trim(s) == TrimEnd(TrimStart(s))

\* String.prototype.split(sep) for a one-token separator: always at least one
\* piece, empty pieces kept.
RECURSIVE SplitOn(_, _)
SplitOn(s, sep) ==
  IF \A i \in 1..Len(s) : s[i] # sep
  THEN <<s>>
  ELSE LET i == CHOOSE k \in 1..Len(s) :
                  s[k] = sep /\ \A j \in 1..(k - 1) : s[j] # sep
       IN  <<SubSeq(s, 1, i - 1)>> \o SplitOn(SubSeq(s, i + 1, Len(s)), sep)

IsTerminal(t) == t \in {".", "!", "?"}

RECURSIVE SkipTerminals(_)
SkipTerminals(s) ==
  IF s # <<>> /\ IsTerminal(Head(s)) THEN SkipTerminals(Tail(s)) ELSE s

\* String.prototype.split(/[.!?]+/): a run of terminal punctuation is one
\* separator.
RECURSIVE SplitSentences(_)
SplitSentences(s) ==
  IF \A i \in 1..Len(s) : ~IsTerminal(s[i])
  THEN <<s>>
  ELSE LET i == CHOOSE k \in 1..Len(s) :
                  IsTerminal(s[k]) /\ \A j \in 1..(k - 1) : ~IsTerminal(s[j])
       IN  <<SubSeq(s, 1, i - 1)>>
             \o SplitSentences(SkipTerminals(SubSeq(s, i, Len(s))))

\* Array.prototype.join
RECURSIVE Join(_, _)
Join(xs, sep) ==
  IF xs = <<>> THEN <<>>
  ELSE IF Len(xs) = 1 THEN xs[1]
  ELSE xs[1] \o <<sep>> \o Join(Tail(xs), sep)

RECURSIVE Flatten(_)
Flatten(xs) == IF xs = <<>> THEN <<>> ELSE Head(xs) \o Flatten(Tail(xs))

\* String.prototype.toLowerCase, token by token.
LowerTok(t) ==
  CASE t = "Knife"      -> "knife"
    [] t = "KNIFE"      -> "knife"
    [] t = "Sword"      -> "sword"
    [] t = "Hit"        -> "hit"
    [] t = "The"        -> "the"
    [] t = "Once"       -> "once"
    [] t = "Hi"         -> "hi"
    [] t = "My"         -> "my"
    [] t = "Magical"    -> "magical"
    [] t = "Adventure"  -> "adventure"
    [] t = "Friendship" -> "friendship"
    [] t = "Garden"     -> "garden"
    [] t = "Family"     -> "family"
    [] t = "Story"      -> "story"
    [] t = "Title"      -> "title"
    [] t = "As"         -> "as"
    [] t = "In"         -> "in"
    [] t = "And"        -> "and"
    [] t = "One"        -> "one"
    [] t = "With"       -> "with"
    [] t = "Along"      -> "along"
    [] t = "Through"    -> "through"
    [] t = MARKER       -> "---page break---"
    [] OTHER            -> t

ToLowerCase(s) == [i \in 1..Len(s) |-> LowerTok(s[i])]

\* --------------------------------------------------------- prompt builder

\* Variant: a palette of three styles.
styles_Three ==
  << [label |-> "watercolor", composition |-> "wide establishing shot"],
     [label |-> "colored pencil", composition |-> "medium shot"],
     [label |-> "gouache", composition |-> "dynamic perspective"] >>

\* const styles = [...] of generateImagePrompts
styles ==
  << [label |-> "watercolor", composition |-> "wide establishing shot"],
     [label |-> "colored pencil", composition |-> "medium shot"],
     [label |-> "gouache", composition |-> "dynamic perspective"],
     [label |-> "ink and wash", composition |-> "close-up portrait"] >>

flaggedWords ==
  << "cutting", "cut", "knife", "blade", "sharp", "weapon", "sword", "gun",
     "fight", "violence", "hurt", "pain", "blood", "wound", "injury", "danger",
     "scary", "frightening", "terror", "death", "die", "kill", "murder",
     "attack", "strike", "hit", "punch", "kick" >>

\* const replacements = {...}; replacements[match.toLowerCase()] || 'adventure'
replacements(w) ==
  CASE w = "cutting"     -> <<"preparing">>
    [] w = "cut"         -> <<"shaped">>
    [] w = "knife"       -> <<"tool">>
    [] w = "blade"       -> <<"leaf">>
    [] w = "sharp"       -> <<"pointed">>
    [] w = "weapon"      -> <<"tool">>
    [] w = "sword"       -> <<"magic", " ", "wand">>
    [] w = "gun"         -> <<"toy">>
    [] w = "fight"       -> <<"play">>
    [] w = "violence"    -> <<"adventure">>
    [] w = "hurt"        -> <<"surprised">>
    [] w = "pain"        -> <<"discomfort">>
    [] w = "blood"       -> <<"red", " ", "juice">>
    [] w = "wound"       -> <<"scratch">>
    [] w = "injury"      -> <<"bump">>
    [] w = "danger"      -> <<"challenge">>
    [] w = "scary"       -> <<"mysterious">>
    [] w = "frightening" -> <<"surprising">>
    [] w = "terror"      -> <<"excitement">>
    [] w = "death"       -> <<"sleep">>
    [] w = "die"         -> <<"rest">>
    [] w = "kill"        -> <<"stop">>
    [] w = "murder"      -> <<"catch">>
    [] w = "attack"      -> <<"approach">>
    [] w = "strike"      -> <<"touch">>
    [] w = "hit"         -> <<"tap">>
    [] w = "punch"       -> <<"poke">>
    [] w = "kick"        -> <<"step">>
    [] OTHER             -> <<"adventure">>

\* moderatedText.replace(new RegExp(`\\b${word}\\b`, 'gi'), ...): a token is
\* replaced when it is the word (ignoring case) and no word token touches it.
ReplaceWord(text, word) ==
  IF \A i \in 1..Len(text) : LowerTok(text[i]) # word THEN text
  ELSE Flatten([i \in 1..Len(text) |->
         IF /\ LowerTok(text[i]) = word
            /\ (i = 1 \/ ~IsWord(text[i - 1]))
            /\ (i = Len(text) \/ ~IsWord(text[i + 1]))
         THEN replacements(LowerTok(text[i]))
         ELSE <<text[i]>>])

\* flaggedWords.forEach from the k-th word on (the test on Len makes TLC
\* compute one pass before it starts the next).
RECURSIVE ModerateFrom(_, _)
ModerateFrom(text, k) ==
  IF k > Len(flaggedWords) \/ Len(text) = 0 THEN text
  ELSE ModerateFrom(ReplaceWord(text, flaggedWords[k]), k + 1)

\* Variant: the text is not lower-cased before the replacements.
moderateContent_NoLower(text) == ModerateFrom(text, 1)

moderateContent(text) == ModerateFrom(ToLowerCase(text), 1)

DefaultScene == <<"A", " ", "magical", " ", "adventure", " ", "scene">>

safeText(t) ==
  IF Trim(t) = <<>> THEN DefaultScene
  ELSE LET moderated == moderateContent(Trim(t))
       IN  IF Len(moderated) > 0 THEN moderated ELSE DefaultScene

\* The keywords of the hint extractors a (lower-cased) token contains as a
\* substring: String.prototype.includes looks inside words.
KeywordsIn(t) ==
  CASE t = "little"     -> {"little"}
    [] t = "big"        -> {"big"}
    [] t = "friend"     -> {"friend"}
    [] t = "friendship" -> {"friend"}
    [] t = "family"     -> {"family"}
    [] t = "red"        -> {"red"}
    [] t = "blue"       -> {"blue"}
    [] t = "forest"     -> {"forest"}
    [] t = "garden"     -> {"garden"}
    [] t = "home"       -> {"home"}
    [] t = "magical"    -> {"magical"}
    [] t = "day"        -> {"day"}
    [] t = "today"      -> {"day"}
    [] t = "days"       -> {"day"}
    [] t = "sunny"      -> {"sunny"}
    [] t = "shaped"     -> {}
    [] OTHER            -> {}

includes(lowerContent, kw) ==
  \E i \in 1..Len(lowerContent) : kw \in KeywordsIn(lowerContent[i])

\* characterWords.slice(0, 3) / settingWords.slice(0, 3)
Slice3(xs) == SubSeq(xs, 1, IF Len(xs) < 3 THEN Len(xs) ELSE 3)

\* One `if (lowerContent.includes(a) || lowerContent.includes(b)) push(hint)`.
HintIf(lowerContent, kws, hint) ==
  IF \E kw \in kws : includes(lowerContent, kw) THEN <<hint>> ELSE <<>>

\* The hints pushed in source order; the labelled clause is the list cut to
\* three, the empty string is the empty list.  storyTitle is not read.
extractCharacterHints(storyTitle, content) ==
  LET lowerContent == ToLowerCase(content)
  IN  Slice3(   HintIf(lowerContent, {"little", "small"}, "small character")
             \o HintIf(lowerContent, {"big", "large"}, "large character")
             \o HintIf(lowerContent, {"child", "kid"}, "child character")
             \o HintIf(lowerContent, {"animal"}, "animal character")
             \o HintIf(lowerContent, {"friend"}, "friendly characters")
             \o HintIf(lowerContent, {"family"}, "family characters")
             \o HintIf(lowerContent, {"red"}, "red colored elements")
             \o HintIf(lowerContent, {"blue"}, "blue colored elements")
             \o HintIf(lowerContent, {"green"}, "green colored elements")
             \o HintIf(lowerContent, {"yellow"}, "yellow colored elements")
             \o HintIf(lowerContent, {"purple"}, "purple colored elements")
             \o HintIf(lowerContent, {"pink"}, "pink colored elements")
             \o HintIf(lowerContent, {"orange"}, "orange colored elements"))

extractSettingHints(storyTitle, content) ==
  LET lowerContent == ToLowerCase(content)
  IN  Slice3(   HintIf(lowerContent, {"forest", "wood"}, "forest setting")
             \o HintIf(lowerContent, {"garden"}, "garden setting")
             \o HintIf(lowerContent, {"home", "house"}, "home setting")
             \o HintIf(lowerContent, {"park"}, "park setting")
             \o HintIf(lowerContent, {"school"}, "school setting")
             \o HintIf(lowerContent, {"magical", "enchanted"}, "magical environment")
             \o HintIf(lowerContent, {"outdoor", "outside"}, "outdoor scene")
             \o HintIf(lowerContent, {"indoor", "inside"}, "indoor scene")
             \o HintIf(lowerContent, {"sunny"}, "sunny atmosphere")
             \o HintIf(lowerContent, {"rainy"}, "rainy atmosphere")
             \o HintIf(lowerContent, {"night"}, "nighttime scene")
             \o HintIf(lowerContent, {"day"}, "daytime scene"))

NonBlank(page) == StrLen(Trim(page)) > 0

\* Variant: a sentence of exactly 10 characters is kept.
LongSentence_AtLeast(s) == StrLen(Trim(s)) >= SentenceMin

LongSentence(s) == StrLen(Trim(s)) > SentenceMin

\* The page segments of generateImagePrompts (contentSections).
splitPages(storyContent) ==
  LET pages == SelectSeq(SplitOn(storyContent, MARKER), NonBlank)
  IN  IF Len(pages) > 1 THEN pages
      ELSE SelectSeq(SplitSentences(storyContent), LongSentence)

\* Variant: one prompt per style of the palette, the sections beyond it get
\* none.
generateImagePrompts_Capped(storyContent, storyTitle) ==
  LET contentSections == splitPages(storyContent)
      count == IF Len(contentSections) < Len(styles)
               THEN Len(contentSections) ELSE Len(styles)
  IN  [i \in 1..count |->
         [ style          |-> styles[i],
           title          |-> storyTitle,
           pageContent    |-> safeText(Trim(contentSections[i])),
           characterHints |-> extractCharacterHints(storyTitle, Join(contentSections, " ")),
           settingHints   |-> extractSettingHints(storyTitle, Join(contentSections, " ")) ]]

\* One prompt per content section.  The template literal's parts are kept as
\* the fields of a record.
generateImagePrompts(storyContent, storyTitle) ==
  LET contentSections == splitPages(storyContent)
      characterHints  == extractCharacterHints(storyTitle, Join(contentSections, " "))
      settingHints    == extractSettingHints(storyTitle, Join(contentSections, " "))
  IN  [i \in 1..Len(contentSections) |->
         [ style          |-> styles[((i - 1) % Len(styles)) + 1],
           title          |-> storyTitle,
           pageContent    |-> safeText(Trim(contentSections[i])),
           characterHints |-> characterHints,
           settingHints   |-> settingHints ]]

\* ------------------------------------------------------------------ state

VARIABLES
  env,           \* process.env: which API keys are configured
  leonardo,      \* the image provider: how long it may leave a job unfinished
  stories,       \* table public.stories
  story_images,  \* table public.story_images
  blobs,         \* the blob store: what was put, under which URL
  req,           \* the POST /api/generate-story request
  trigger,       \* the fire-and-forget fetch of /api/generate-images
  calls,         \* the POST /api/generate-images invocations
  view,          \* the story page as last rendered to the owner
  deletion       \* the DELETE /api/delete-story request

vars ==
  <<env, leonardo, stories, story_images, blobs, req, trigger, calls, view,
    deletion>>

\* The two sources of a generate-images invocation: the background fetch of
\* generate-story and the GenerateImagesButton of the story page.
Calls == {"background", "manual"}

Owner == "alice"
Users == {"", Owner, "mallory"}     \* "" : no session

\* ------------------------------------------------------------------- URLs

NoUrl == [host |-> "none", path |-> "", key |-> <<>>]

\* return "/whimsical-forest-tale.png"  (a relative URL: no host)
PlaceholderPath == [host |-> "", path |-> "/whimsical-forest-tale.png", key |-> <<>>]

\* generated_images[0].url of a COMPLETE job
GeneratedUrl(generic) ==
  [host |-> "cdn.leonardo.ai",
   path |-> IF generic THEN "/generic-prompt.jpg" ELSE "/page-prompt.jpg",
   key  |-> <<>>]

\* imageUrl.startsWith("http") ? imageUrl : new URL(imageUrl, origin)
AbsoluteUrl(imageUrl) ==
  IF imageUrl.host # "" THEN imageUrl ELSE [imageUrl EXCEPT !.host = "origin"]

NoBytes == [src |-> NoUrl, ok |-> FALSE]

\* Variant: the image URL is recorded as returned by the generator, nothing
\* is copied to the blob store.
BlobUrl_Direct(storyId, c, index) == PlaceholderPath

\* put(`story-images/${storyId}/${Date.now()}-${index}.png`, ...).url; the
\* invocation stands for its clock reading.
BlobUrl(storyId, c, index) ==
  [host |-> "blob", path |-> "story-images", key |-> <<storyId, c, index>>]

\* ------------------------------------------------- generate-images handler

\* One callback of imagePrompts.map.  pc is where it stands; imageUrl, bytes,
\* generic (the generic prompt was submitted) and attempts are the code's
\* values; subs and polls count the requests sent to the provider (polls: for
\* the job being polled); answer is the provider's answer to the first
\* submission and status the answer that ended the polling loop, both kept
\* until the image URL has been fetched; cause is how
\* generateImageWithLeonardo ended; result is what the callback returned
\* (<<>> is null).
IdlePage ==
  [pc |-> "start", imageUrl |-> NoUrl, bytes |-> NoBytes, generic |-> FALSE,
   attempts |-> 0, polls |-> 0, subs |-> 0, answer |-> "", status |-> "",
   cause |-> "", result |-> <<>>]

NoResponse == [status |-> 0, images |-> <<>>]

IdleCall ==
  [pc |-> "idle", user |-> "", storyId |-> 0, storyContent |-> <<>>,
   storyTitle |-> <<>>, prompts |-> <<>>, pages |-> <<>>,
   response |-> NoResponse]

Arrived(user, storyId, storyContent, storyTitle) ==
  [IdleCall EXCEPT !.pc = "arrived", !.user = user, !.storyId = storyId,
                   !.storyContent = storyContent, !.storyTitle = storyTitle]

Respond(c, status, images) ==
  calls' = [calls EXCEPT ![c].pc = "responded",
                         ![c].response = [status |-> status, images |-> images]]

\* getUser, then the body check: 401, 400, or on to the ownership check.
CallAuth(c) ==
  /\ calls[c].pc = "arrived"
  /\ IF calls[c].user = "" THEN Respond(c, 401, <<>>)
     ELSE IF calls[c].storyId = 0 \/ calls[c].storyContent = <<>>
          THEN Respond(c, 400, <<>>)
          ELSE calls' = [calls EXCEPT ![c].pc = "owner"]
  /\ UNCHANGED <<env, leonardo, stories, story_images, blobs, req, trigger, view, deletion>>

\* Variant: the select has no .eq("user_id", user.id).
OwnedStory_AnyUser(storyId, user) ==
  \E s \in stories : s.id = storyId

\* select id from stories where id = storyId and user_id = user.id
OwnedStory(storyId, user) ==
  \E s \in stories : s.id = storyId /\ s.user_id = user

\* Variant: a story that has illustration records is answered with them and
\* nothing is generated.
CallOwner_Dedup(c) ==
  /\ calls[c].pc = "owner"
  /\ LET have == {r \in story_images : r.story_id = calls[c].storyId}
     IN  IF ~OwnedStory(calls[c].storyId, calls[c].user) THEN Respond(c, 404, <<>>)
         ELSE IF have # {} THEN Respond(c, 200, <<CHOOSE r \in have : TRUE>>)
         ELSE LET imagePrompts ==
                    generateImagePrompts(calls[c].storyContent, calls[c].storyTitle)
              IN  calls' = [calls EXCEPT
                     ![c].pc = "running",
                     ![c].prompts = imagePrompts,
                     ![c].pages = [p \in 1..Len(imagePrompts) |-> IdlePage]]
  /\ UNCHANGED <<env, leonardo, stories, story_images, blobs, req, trigger, view,
                 deletion>>

\* The ownership check, then generateImagePrompts and the dispatch of every
\* page's callback by imagePrompts.map.
CallOwner(c) ==
  /\ calls[c].pc = "owner"
  /\ IF ~OwnedStory(calls[c].storyId, calls[c].user) THEN Respond(c, 404, <<>>)
     ELSE LET imagePrompts ==
                generateImagePrompts(calls[c].storyContent, calls[c].storyTitle)
          IN  calls' = [calls EXCEPT
                 ![c].pc = "running",
                 ![c].prompts = imagePrompts,
                 ![c].pages = [p \in 1..Len(imagePrompts) |-> IdlePage]]
  /\ UNCHANGED <<env, leonardo, stories, story_images, blobs, req, trigger, view, deletion>>

Running(c, p, pc) ==
  /\ calls[c].pc = "running"
  /\ p \in 1..Len(calls[c].pages)
  /\ calls[c].pages[p].pc = pc

SetPage(c, p, page) == calls' = [calls EXCEPT ![c].pages[p] = page]

\* generateImageWithLeonardo's catch: the placeholder is the image URL.  The
\* polling loop's locals are gone.
ToPlaceholder(page, cause) ==
  [page EXCEPT !.pc = "fetch", !.imageUrl = PlaceholderPath, !.cause = cause,
               !.attempts = 0, !.polls = 0]

\* The callback has returned: its locals are gone.
Returned(page, result) ==
  [page EXCEPT !.pc = "done", !.result = result, !.imageUrl = NoUrl,
               !.bytes = NoBytes, !.answer = "", !.status = ""]

\* Variant: the callback has no try/catch, its exception rejects Promise.all.
ToNull_Uncaught(page) == [page EXCEPT !.pc = "threw"]

\* The map callback's catch (and `return null` after a database error).
ToNull(page) == Returned(page, <<>>)

SubmitOutcomes == {"network", "moderated", "rejected", "malformed", "accepted"}

\* Variant: every failed submission is retried with the generic prompt.
SubmitResult_RetryAll(page, keyConfigured, outcome) ==
  IF ~keyConfigured
  THEN Returned([page EXCEPT !.cause = "nokey"], <<>>)
  ELSE LET sent == [page EXCEPT !.subs = @ + 1, !.answer = outcome]
       IN  IF outcome = "accepted"
           THEN [sent EXCEPT !.pc = "poll", !.attempts = 0, !.polls = 0]
           ELSE [sent EXCEPT !.pc = "generic"]

\* generateImageWithLeonardo up to the answer to its POST .../generations.
SubmitResult(page, keyConfigured, outcome) ==
  IF ~keyConfigured
  THEN ToNull([page EXCEPT !.cause = "nokey"])
  ELSE LET sent == [page EXCEPT !.subs = @ + 1, !.answer = outcome]
       IN  CASE outcome = "accepted"  -> [sent EXCEPT !.pc = "poll", !.attempts = 0,
                                                      !.polls = 0]
             [] outcome = "moderated" -> [sent EXCEPT !.pc = "generic"]
             [] OTHER                 -> ToPlaceholder(sent, "failed")

PageSubmit(c, p) ==
  /\ Running(c, p, "start")
  /\ \E outcome \in SubmitOutcomes :
       SetPage(c, p, SubmitResult(calls[c].pages[p], env.LEONARDO_API_KEY, outcome))
  /\ UNCHANGED <<env, leonardo, stories, story_images, blobs, req, trigger, view, deletion>>

\* generateImageWithGenericPrompt up to the answer to its POST.
GenericResult(page, keyConfigured, outcome) ==
  IF ~keyConfigured
  THEN ToPlaceholder(page, "failed")
  ELSE LET sent == [page EXCEPT !.subs = @ + 1, !.generic = TRUE]
       IN  IF outcome = "accepted"
           THEN [sent EXCEPT !.pc = "poll", !.attempts = 0, !.polls = 0]
           ELSE ToPlaceholder(sent, "failed")

PageSubmitGeneric(c, p) ==
  /\ Running(c, p, "generic")
  /\ \E outcome \in SubmitOutcomes :
       SetPage(c, p, GenericResult(calls[c].pages[p], env.LEONARDO_API_KEY, outcome))
  /\ UNCHANGED <<env, leonardo, stories, story_images, blobs, req, trigger, view, deletion>>

PollAnswers == {"network", "httperror", "COMPLETE", "COMPLETE-nourl", "FAILED", "PENDING"}

\* Variant: the loop test is attempts <= maxAttempts.
PollResult_OneMore(page, answer) ==
  LET asked == [page EXCEPT !.polls = @ + 1]
      ended == [asked EXCEPT !.status = answer]
  IN  CASE answer = "COMPLETE" ->
             [ended EXCEPT !.pc = "fetch", !.imageUrl = GeneratedUrl(page.generic),
                           !.cause = "generated", !.attempts = 0, !.polls = 0]
        [] answer \in {"network", "httperror", "FAILED"} ->
             [ended EXCEPT !.pc = "fetch", !.imageUrl = PlaceholderPath,
                           !.cause = "failed", !.attempts = 0, !.polls = 0]
        [] OTHER ->
             IF page.attempts + 1 <= maxAttempts
             THEN [asked EXCEPT !.attempts = @ + 1]
             ELSE [ended EXCEPT !.pc = "fetch", !.imageUrl = PlaceholderPath,
                                !.cause = "timeout", !.attempts = 0, !.polls = 0]

\* Variant: a status request answered with an HTTP error is repeated after the
\* sleep like one that found the job unfinished.
PollResult_HttpRetry(page, answer) ==
  LET asked == [page EXCEPT !.polls = @ + 1]
      ended == [asked EXCEPT !.status = answer]
  IN  CASE answer = "COMPLETE" ->
             [ended EXCEPT !.pc = "fetch", !.imageUrl = GeneratedUrl(page.generic),
                           !.cause = "generated", !.attempts = 0, !.polls = 0]
        [] answer \in {"network", "FAILED"} ->
             [ended EXCEPT !.pc = "fetch", !.imageUrl = PlaceholderPath,
                           !.cause = "failed", !.attempts = 0, !.polls = 0]
        [] OTHER ->
             IF page.attempts + 1 < maxAttempts
             THEN [asked EXCEPT !.attempts = @ + 1]
             ELSE [ended EXCEPT !.pc = "fetch", !.imageUrl = PlaceholderPath,
                                !.cause = "timeout", !.attempts = 0, !.polls = 0]

\* One turn of pollLeonardoGeneration's loop: the status request, its answer,
\* and for an unfinished job the sleep, attempts++ and the loop test.
PollResult(page, answer) ==
  LET asked == [page EXCEPT !.polls = @ + 1]
      ended == [asked EXCEPT !.status = answer]
  IN  CASE answer = "COMPLETE" ->
             [ended EXCEPT !.pc = "fetch", !.imageUrl = GeneratedUrl(page.generic),
                           !.cause = "generated", !.attempts = 0, !.polls = 0]
        [] answer \in {"network", "httperror", "FAILED"} ->
             ToPlaceholder(ended, "failed")
        [] OTHER ->
             IF page.attempts + 1 < maxAttempts
             THEN [asked EXCEPT !.attempts = @ + 1]
             ELSE ToPlaceholder(ended, "timeout")

Unfinished(answer) == answer \in {"PENDING", "COMPLETE-nourl"}

PagePoll(c, p) ==
  /\ Running(c, p, "poll")
  /\ calls[c].pages[p].attempts < maxAttempts
  /\ \E answer \in PollAnswers :
       /\ Unfinished(answer) => calls[c].pages[p].attempts < leonardo.pendingCap
       /\ SetPage(c, p, PollResult(calls[c].pages[p], answer))
  /\ UNCHANGED <<env, leonardo, stories, story_images, blobs, req, trigger, view, deletion>>

FetchOutcomes == {"throw", "ok", "notok"}

\* fetch(absoluteUrl) and response.arrayBuffer(); response.ok is not read.
FetchResult(page, outcome) ==
  IF outcome = "throw" THEN ToNull(page)
  ELSE [page EXCEPT !.pc = "put", !.answer = "", !.status = "",
                    !.bytes = [src |-> AbsoluteUrl(page.imageUrl),
                               ok  |-> (outcome = "ok")]]

PageFetch(c, p) ==
  /\ Running(c, p, "fetch")
  /\ \E outcome \in FetchOutcomes :
       SetPage(c, p, FetchResult(calls[c].pages[p], outcome))
  /\ UNCHANGED <<env, leonardo, stories, story_images, blobs, req, trigger, view, deletion>>

\* put(...) to the blob store.
PagePut(c, p) ==
  /\ Running(c, p, "put")
  /\ \/ /\ SetPage(c, p, ToNull(calls[c].pages[p]))
        /\ UNCHANGED blobs
     \/ /\ SetPage(c, p, [calls[c].pages[p] EXCEPT !.pc = "insert"])
        /\ blobs' = blobs \cup {[url   |-> BlobUrl(calls[c].storyId, c, p - 1),
                                 bytes |-> calls[c].pages[p].bytes]}
  /\ UNCHANGED <<env, leonardo, stories, story_images, req, trigger, view, deletion>>

\* const genericPrompt = "Children's book illustration, watercolor style, ..."
genericPrompt ==
  [ style          |-> [label       |-> "watercolor style, gentle colors",
                        composition |-> "whimsical forest scene with friendly animals"],
    title          |-> <<>>,
    pageContent    |-> <<>>,
    characterHints |-> <<>>,
    settingHints   |-> <<>> ]

\* Variant: the row of a page that was retried records the generic prompt.
StoryImage_GenericPrompt(c, p) ==
  [id          |-> <<c, p>>,
   story_id    |-> calls[c].storyId,
   image_url   |-> BlobUrl(calls[c].storyId, c, p - 1),
   prompt      |-> IF calls[c].pages[p].generic THEN genericPrompt
                   ELSE calls[c].prompts[p],
   page_number |-> (p - 1) + 1]

\* Variant: page_number: index.
StoryImage_ZeroBased(c, p) ==
  [id          |-> <<c, p>>,
   story_id    |-> calls[c].storyId,
   image_url   |-> BlobUrl(calls[c].storyId, c, p - 1),
   prompt      |-> calls[c].prompts[p],
   page_number |-> p - 1]

\* The row of .insert({story_id, image_url: blob.url, prompt, page_number: index + 1})
StoryImage(c, p) ==
  [id          |-> <<c, p>>,
   story_id    |-> calls[c].storyId,
   image_url   |-> BlobUrl(calls[c].storyId, c, p - 1),
   prompt      |-> calls[c].prompts[p],
   page_number |-> (p - 1) + 1]

\* What the callback returns after the insert: the row, or null on an error.
InsertResult(page, row, error) ==
  IF error THEN ToNull(page) ELSE Returned(page, <<row>>)

\* Variant: the insert replaces the story's row of the same page.
PageInsert_Upsert(c, p) ==
  /\ Running(c, p, "insert")
  /\ \/ /\ SetPage(c, p, InsertResult(calls[c].pages[p], StoryImage(c, p), TRUE))
        /\ UNCHANGED story_images
     \/ /\ \E s \in stories : s.id = calls[c].storyId
        /\ SetPage(c, p, InsertResult(calls[c].pages[p], StoryImage(c, p), FALSE))
        /\ story_images' =
             {r \in story_images : ~(r.story_id = calls[c].storyId
                                       /\ r.page_number = p)}
               \cup {StoryImage(c, p)}
  /\ UNCHANGED <<env, leonardo, stories, blobs, req, trigger, view, deletion>>

\* insert into story_images; story_id references stories(id).
PageInsert(c, p) ==
  /\ Running(c, p, "insert")
  /\ \/ /\ SetPage(c, p, InsertResult(calls[c].pages[p], StoryImage(c, p), TRUE))
        /\ UNCHANGED story_images
     \/ /\ \E s \in stories : s.id = calls[c].storyId
        /\ SetPage(c, p, InsertResult(calls[c].pages[p], StoryImage(c, p), FALSE))
        /\ story_images' = story_images \cup {StoryImage(c, p)}
  /\ UNCHANGED <<env, leonardo, stories, blobs, req, trigger, view, deletion>>

\* generatedImages.filter(Boolean)
successfulImages(pages) ==
  Flatten([p \in 1..Len(pages) |-> pages[p].result])

\* Promise.all: fulfilled once every callback has returned, rejected as soon
\* as one callback has thrown.
Rejected(pages) == \E p \in 1..Len(pages) : pages[p].pc = "threw"

AllSettled(pages) ==
  Rejected(pages) \/ \A p \in 1..Len(pages) : pages[p].pc = "done"

\* The response after Promise.all: success with the non-null results, or the
\* handler's outer catch.
CallRespond(c) ==
  /\ calls[c].pc = "running"
  /\ AllSettled(calls[c].pages)
  /\ IF Rejected(calls[c].pages) THEN Respond(c, 500, <<>>)
     ELSE Respond(c, 200, successfulImages(calls[c].pages))
  /\ UNCHANGED <<env, leonardo, stories, story_images, blobs, req, trigger, view, deletion>>

\* ------------------------------------------------------------ story bodies

\* The text of page i of a generated story.
PageText(i) ==
  IF i % 2 = 1 THEN <<"The", " ", "little", " ", "explorer">>
  ELSE <<"Hit", " ", "the", " ", "Sword", " ", "today">>

RECURSIVE MarkedBody(_)
MarkedBody(n) ==
  IF n = 1 THEN PageText(1)
  ELSE MarkedBody(n - 1) \o <<"\n", MARKER, "\n">> \o PageText(n)

\* A story body from which generateImagePrompts derives n pages: no sentence
\* longer than 10 characters (0), one such sentence (1), n marked pages.
BodyOf(n) ==
  CASE n = 0 -> <<"Hi", ".">>
    [] n = 1 -> <<"Once", " ", "upon", " ", "a", " ", "time", ".">>
    [] OTHER -> MarkedBody(n)

StoryTitle == <<"The", " ", "Magical", " ", "Story">>

StoryRow(id, user, title, content) ==
  [id |-> id, user_id |-> user, title |-> title, content |-> content,
   cover_image_url |-> "photo-1"]

\* A JavaScript value as far as the handlers tell values apart: a string
\* with its text, an array with its elements, a function, or undefined.
Str(val) == [type |-> "string", val |-> val]

Array(val) == [type |-> "array", val |-> val]

Undefined == [type |-> "undefined", val |-> <<>>]

Function == [type |-> "function", val |-> <<>>]

\* The answer the text provider will give to the request, if it is asked.
NoAnswer == [outcome |-> "", content |-> <<>>]

\* The generate-story request.  pc is where the handler stands; user, images
\* (the body's images value) and theme (customizations.theme, "" when
\* absent) are the request; storyContent, storyGenerationSuccessful, title,
\* content are the handler's variables, storyId the id of the inserted row
\* and saveError the insert's error; fallback records that
\* generateFallbackStory gave the narrative.
IdleReq ==
  [pc |-> "idle", user |-> "", images |-> Undefined, theme |-> "", remote |-> NoAnswer,
   storyContent |-> Undefined, storyGenerationSuccessful |-> FALSE,
   fallback |-> FALSE, title |-> <<>>, content |-> <<>>, storyId |-> 0,
   saveError |-> FALSE,
   response |-> [status |-> 0, error |-> "", storyId |-> 0, title |-> <<>>]]

ClosedView == [pc |-> "closed", offered |-> FALSE]

\* The delete-story request.  pc is where the handler stands; user and
\* storyId (0 when absent) are the request; imagesDeleteError is the error of
\* the delete on story_images.
IdleDeletion ==
  [pc |-> "idle", user |-> "", storyId |-> 0, imagesDeleteError |-> FALSE,
   response |-> [status |-> 0, error |-> ""]]

\* ------------------------------------- specification: one illustration batch

\* One generate-images request arrives for story 1 of the owner, whose body
\* gives between `least` and `most` pages; the provider answers at most
\* pendingCap status requests of a job in a row with an unfinished job.
BatchInit(least, most, pendingCap) ==
  /\ env \in [OPENROUTER_API_KEY : {TRUE}, LEONARDO_API_KEY : BOOLEAN]
  /\ leonardo = [pendingCap |-> pendingCap]
  /\ \E n \in least..most :
       /\ stories = {StoryRow(1, Owner, StoryTitle, BodyOf(n))}
       /\ \E user \in Users, storyId \in {0, 1, 2}, body \in {<<>>, BodyOf(n)} :
            calls = [c \in Calls |->
                       IF c = "manual"
                       THEN Arrived(user, storyId, body, StoryTitle)
                       ELSE IdleCall]
  /\ story_images = {}
  /\ blobs = {}
  /\ req = IdleReq
  /\ trigger = "none"
  /\ view = ClosedView
  /\ deletion = IdleDeletion

Next ==
  \E c \in Calls :
    \/ CallAuth(c)
    \/ CallOwner(c)
    \/ CallRespond(c)
    \/ \E p \in 1..MaxPages :
         \/ PageSubmit(c, p)
         \/ PageSubmitGeneric(c, p)
         \/ PagePoll(c, p)
         \/ PageFetch(c, p)
         \/ PagePut(c, p)
         \/ PageInsert(c, p)

\* Batches of up to MaxPages concurrent pages.
Init == BatchInit(0, MaxPages, MaxPending)

Spec == Init /\ [][Next]_vars

\* ------------------------------------ specification: one page, full polling

\* A one-page batch whose job the provider may leave unfinished for the whole
\* polling loop.
InitPolling == BatchInit(1, 1, maxAttempts)

SpecPolling == InitPolling /\ [][Next]_vars

\* ------------------------------------------- claims: the illustration batch

\* The pages of the invocations that dispatched their callbacks.
Dispatched == {cp \in Calls \X (1..MaxPages) :
                 /\ calls[cp[1]].pc \in {"running", "responded"}
                 /\ cp[2] <= Len(calls[cp[1]].pages)}

PageOf(cp) == calls[cp[1]].pages[cp[2]]

Answered(c) == calls[c].pc = "responded" /\ calls[c].response.status = 200

PageNumbers(images) == {images[i].page_number : i \in 1..Len(images)}

PageStep(c, p) ==
  \/ PageSubmit(c, p)
  \/ PageSubmitGeneric(c, p)
  \/ PagePoll(c, p)
  \/ PageFetch(c, p)
  \/ PagePut(c, p)
  \/ PageInsert(c, p)

\* C6: a batch that dispatched its pages never answers with an error and
\* answers only when every page has returned; a page that has not returned
\* can always take its next step, whatever happened to the other pages; and a
\* step of one page leaves every other page's state as it was.
C6_Independent ==
  /\ [](\A c \in Calls :
          /\ calls[c].pc = "responded" =>
               /\ calls[c].response.status # 500
               /\ calls[c].response.status = 200 =>
                    \A p \in 1..Len(calls[c].pages) : calls[c].pages[p].pc = "done"
          /\ \A p \in 1..MaxPages :
               (<<c, p>> \in Dispatched /\ calls[c].pc = "running"
                  /\ calls[c].pages[p].pc # "done") => ENABLED PageStep(c, p))
  /\ [][\A c \in Calls :
          \A p, q \in 1..Len(calls[c].pages) :
            (/\ calls'[c].pc = "running"
             /\ p # q
             /\ calls'[c].pages[p] # calls[c].pages[p])
              => calls'[c].pages[q] = calls[c].pages[q]]_vars

\* A batch is answered with success although one of its pages failed and the
\* other produced its row.
C6_Witness ==
  \E c \in Calls :
    /\ Answered(c)
    /\ Len(calls[c].pages) = 2
    /\ calls[c].pages[1].cause = "failed"
    /\ calls[c].pages[1].result = <<>>
    /\ calls[c].pages[2].cause = "generated"
    /\ calls[c].pages[2].result # <<>>

\* The bytes stored under a blob URL.
BytesUnder(url) == {b.bytes : b \in {x \in blobs : x.url = url}}

C8_Claim ==
  \A cp \in Dispatched :
    /\ (PageOf(cp).pc = "done" /\ PageOf(cp).cause = "nokey") =>
         PageOf(cp).result # <<>>
    /\ calls[cp[1]].pc = "responded" => calls[cp[1]].response.status = 200

C10_Polling ==
  /\ [](\A cp \in Dispatched :
          LET g == PageOf(cp)
          IN  /\ g.pc = "poll" =>
                   (g.polls = g.attempts /\ g.polls < maxAttempts /\ g.status = "")
              /\ g.pc # "poll" => g.polls = 0
              /\ g.pc = "fetch" =>
                   /\ g.status = "COMPLETE" <=> g.cause = "generated"
                   /\ g.status = "FAILED" => g.cause = "failed"
                   /\ g.cause = "timeout" <=>
                        g.status \in {"PENDING", "COMPLETE-nourl"}
                   /\ g.imageUrl = IF g.cause = "generated"
                                   THEN GeneratedUrl(g.generic)
                                   ELSE PlaceholderPath)
  /\ [][\A c \in Calls : \A p \in 1..Len(calls[c].pages) :
          LET a == calls[c].pages[p]
              b == calls'[c].pages[p]
          IN  (calls'[c].pc = "running" /\ a.pc = "poll" /\ b # a) =>
                /\ b.pc \in {"poll", "fetch"}
                /\ b.pc = "poll" => b.polls = a.polls + 1
                /\ b.cause = "timeout" <=>
                     (b.status \in {"PENDING", "COMPLETE-nourl"}
                        /\ a.polls + 1 = maxAttempts)]_vars

\* A job was still unfinished at the 30th status request: timeout.
C10_Witness ==
  \E cp \in Dispatched :
    /\ PageOf(cp).cause = "timeout"
    /\ PageOf(cp).status = "COMPLETE-nourl"
    /\ PageOf(cp).pc = "fetch"

\* --------------------------------------------------- generate-story handler

\* const fallbackStories = {adventure, friendship, family}: the title line and
\* four paragraphs between page-break markers, blank lines around each
\* marker.  A paragraph is kept by its opening words.
PageBreak == <<"\n", "\n", MARKER, "\n", "\n">>

Template(title, p1, p2, p3, p4) ==
  title \o PageBreak \o p1 \o PageBreak \o p2 \o PageBreak \o p3
        \o PageBreak \o p4

AdventureStory ==
  Template(<<"The", " ", "Magical", " ", "Adventure">>,
           <<"Once", " ", "upon", " ", "a", " ", "time", ".">>,
           <<"As", " ", "they", " ", "ventured", ".">>,
           <<"With", " ", "each", " ", "step", ".">>,
           <<"And", " ", "so", ".">>)

FriendshipStory ==
  Template(<<"The", " ", "Friendship", " ", "Garden">>,
           <<"In", " ", "a", " ", "special", " ", "place", ".">>,
           <<"One", " ", "day", ".">>,
           <<"Through", " ", "sunny", " ", "days", ".">>,
           <<"The", " ", "garden", " ", "became", ".">>)

FamilyStory ==
  Template(<<"The", " ", "Family", " ", "Adventure">>,
           <<"In", " ", "a", " ", "cozy", " ", "home", ".">>,
           <<"One", " ", "sunny", " ", "morning", ".">>,
           <<"Along", " ", "the", " ", "way", ".">>,
           <<"As", " ", "they", " ", "returned", ".">>)

\* Property names every object literal inherits from Object.prototype.
ProtoKeys == {"constructor", "toString", "valueOf", "hasOwnProperty"}

\* fallbackStories[theme]: an own property, an inherited one, or undefined.
fallbackStories(theme) ==
  CASE theme = "adventure"  -> Str(AdventureStory)
    [] theme = "friendship" -> Str(FriendshipStory)
    [] theme = "family"     -> Str(FamilyStory)
    [] theme \in ProtoKeys  -> Function
    [] OTHER                -> Undefined

\* JavaScript truthiness of a value.
Truthy(v) ==
  v.type \in {"function", "array"} \/ (v.type = "string" /\ v.val # <<>>)

\* generateFallbackStory(customizations); theme "" is customizations?.theme
\* undefined.
generateFallbackStory(theme) ==
  LET key           == IF theme # "" THEN theme ELSE "adventure"
      selectedStory == IF Truthy(fallbackStories(key)) THEN fallbackStories(key)
                       ELSE fallbackStories("adventure")
  IN  selectedStory

\* What the text provider can do with the request: the fetch rejects, the
\* response is not ok, has no choices[0].message, has a message whose content
\* is null, or has a content string.
RemoteFailures == {"throw", "notok", "nochoices", "nocontent"}

\* A title of 105 characters.
LongTitle ==
  Flatten([i \in 1..9 |-> <<"Friendship", " ">>]) \o <<"Garden">>

\* A titled story of one page.
OnePageStory == StoryTitle \o <<"\n", "\n">> \o BodyOf(1)

\* The content strings of the provider in the model: a markdown heading and a
\* page, a title and two marked pages, a single line, white space, a long
\* title and a page.
Completions ==
  { <<"#", " ">> \o OnePageStory \o <<"\n">>,
    StoryTitle \o <<"\n", "\n">> \o MarkedBody(2),
    StoryTitle,
    <<" ">>,
    LongTitle \o <<"\n">> \o BodyOf(1) }

RemoteAnswers ==
  [outcome : RemoteFailures, content : {<<>>}]
    \cup [outcome : {"ok"}, content : Completions]

\* generateStoryFromImages(images, customizations), the key being configured:
\* the trimmed content, or what its catch returns, generateFallbackStory()
\* without an argument.
generateStoryFromImages(remote, theme) ==
  IF remote.outcome = "ok" THEN Str(Trim(remote.content))
  ELSE generateFallbackStory("")

\* line.replace(/^#+\s*/, "")
RECURSIVE DropHashes(_)
DropHashes(line) ==
  IF line # <<>> /\ Head(line) = "#" THEN DropHashes(Tail(line)) ELSE line

StripHeading(line) ==
  IF line # <<>> /\ Head(line) = "#" THEN TrimStart(DropHashes(line)) ELSE line

\* storyContent.split("\n").filter((line) => line.trim())
Lines(storyContent) == SelectSeq(SplitOn(storyContent, "\n"), NonBlank)

DefaultTitle == <<"My", " ", "Magical", " ", "Story">>

\* lines[0]?.replace(/^#+\s*/, "") || "My Magical Story"
TitleOf(storyContent) ==
  LET lines == Lines(storyContent)
  IN  IF lines # <<>> /\ StripHeading(lines[1]) # <<>>
      THEN StripHeading(lines[1]) ELSE DefaultTitle

\* Variant: the whole text, title line included, is the content.
ContentOf_Whole(storyContent) == storyContent

\* lines.slice(1).join("\n").trim() || storyContent
ContentOf(storyContent) ==
  LET lines == Lines(storyContent)
      rest  == IF lines = <<>> THEN <<>> ELSE Trim(Join(Tail(lines), "\n"))
  IN  IF rest # <<>> THEN rest ELSE storyContent

\* The characters of a word, for the words of the titles.
Chars(t) ==
  CASE t = "Garden"     -> <<"G", "a", "r", "d", "e", "n">>
    [] t = "Friendship" -> <<"F", "r", "i", "e", "n", "d", "s", "h", "i", "p">>
    [] t = "Magical"    -> <<"M", "a", "g", "i", "c", "a", "l">>
    [] t = "Adventure"  -> <<"A", "d", "v", "e", "n", "t", "u", "r", "e">>
    [] t = "Family"     -> <<"F", "a", "m", "i", "l", "y">>
    [] t = "Story"      -> <<"S", "t", "o", "r", "y">>
    [] t = "The"        -> <<"T", "h", "e">>
    [] t = "My"         -> <<"M", "y">>
    [] OTHER            -> <<t>>

\* s.substring(0, n): whole tokens while they fit, then the first characters
\* of the token that does not.
RECURSIVE Substring(_, _)
Substring(s, n) ==
  IF s = <<>> \/ n = 0 THEN <<>>
  ELSE IF TokLen(Head(s)) <= n
       THEN <<Head(s)>> \o Substring(Tail(s), n - TokLen(Head(s)))
       ELSE SubSeq(Chars(Head(s)), 1, n)

\* The id the database gives the next story.
NewId == 1 + Cardinality(stories)

StoryRespond(status, error, storyId, title) ==
  req' = [req EXCEPT !.pc = "responded",
                     !.response = [status |-> status, error |-> error,
                                   storyId |-> storyId, title |-> title]]

\* Variant: only `!images` is tested.
NoImages_Falsy(images) == ~Truthy(images)

\* !images || !Array.isArray(images) || images.length === 0
NoImages(images) ==
  ~Truthy(images) \/ images.type # "array" \/ Len(images.val) = 0

\* getUser, then the check of the image list: 401, 400, or on.
StoryAuth ==
  /\ req.pc = "arrived"
  /\ IF req.user = "" THEN StoryRespond(401, "Unauthorized", 0, <<>>)
     ELSE IF NoImages(req.images) THEN StoryRespond(400, "No images provided", 0, <<>>)
          ELSE req' = [req EXCEPT !.pc = "generate"]
  /\ UNCHANGED <<env, leonardo, stories, story_images, blobs, trigger, calls, view, deletion>>

\* if (OPENROUTER_API_KEY) { storyContent = await generateStoryFromImages(..);
\* storyGenerationSuccessful = true } else { generateFallbackStory(..) }.
\* generateStoryFromImages catches whatever its call throws, so the handler's
\* own catch around it is never entered.
StoryGenerate ==
  /\ req.pc = "generate"
  /\ req' = IF env.OPENROUTER_API_KEY
            THEN [req EXCEPT
                    !.pc = "save",
                    !.storyContent = generateStoryFromImages(req.remote, req.theme),
                    !.storyGenerationSuccessful = TRUE,
                    !.fallback = (req.remote.outcome # "ok")]
            ELSE [req EXCEPT
                    !.pc = "save",
                    !.storyContent = generateFallbackStory(req.theme),
                    !.fallback = TRUE]
  /\ UNCHANGED <<env, leonardo, stories, story_images, blobs, trigger, calls, view, deletion>>

\* The title and content are cut out of storyContent and the row is
\* inserted: a value that is no string has no split and the outer catch
\* answers; the insert gives the row or an error.
StorySave ==
  /\ req.pc = "save"
  /\ IF req.storyContent.type # "string"
     THEN /\ StoryRespond(500, "Failed to generate story", 0, <<>>)
          /\ UNCHANGED stories
     ELSE LET title   == TitleOf(req.storyContent.val)
              content == ContentOf(req.storyContent.val)
          IN  \E error \in BOOLEAN :
                /\ req' = [req EXCEPT !.pc = "saved", !.title = title,
                                      !.content = content,
                                      !.saveError = error,
                                      !.storyId = IF error THEN 0 ELSE NewId]
                /\ stories' =
                     IF error THEN stories
                     ELSE stories \cup
                            {StoryRow(NewId, req.user,
                                      Substring(title, TitleLimit), content)}
  /\ UNCHANGED <<env, leonardo, story_images, blobs, trigger, calls, view, deletion>>

\* Variant: the background call is made whenever the image key is configured.
ShouldTrigger_KeyOnly(storyGenerationSuccessful, environment) ==
  environment.LEONARDO_API_KEY

\* if (storyGenerationSuccessful && process.env.LEONARDO_API_KEY)
ShouldTrigger(storyGenerationSuccessful, environment) ==
  storyGenerationSuccessful /\ environment.LEONARDO_API_KEY

\* The row inserted for the request.
SavedStory == CHOOSE s \in stories : s.id = req.storyId

\* After the insert: its error answers 500; else the background fetch of
\* /api/generate-images is fired, or skipped, and the response is sent.
StoryFinish ==
  /\ req.pc = "saved"
  /\ IF req.saveError
     THEN /\ StoryRespond(500, "Failed to save story", 0, <<>>)
          /\ UNCHANGED trigger
     ELSE /\ trigger' = IF ShouldTrigger(req.storyGenerationSuccessful, env)
                        THEN "sent" ELSE trigger
          /\ StoryRespond(200, "", req.storyId, SavedStory.title)
  /\ UNCHANGED <<env, leonardo, stories, story_images, blobs, calls, view, deletion>>

\* ------------------------------------------ specification: one story request

Themes == {"", "friendship", "adventure", "family", "nature", "constructor"}

\* The images value of a request body: absent, a string, an empty list, a
\* list of two URLs.
TwoPhotos == Array(<<"photo-1", "photo-2">>)

ImageLists == {Undefined, Str(<<"photo-1">>), Array(<<>>), TwoPhotos}

\* A generate-story request arrives: with or without a session, with or
\* without a non-empty image list, with any theme; each key is configured or
\* not.
InitStory ==
  /\ env \in [OPENROUTER_API_KEY : BOOLEAN, LEONARDO_API_KEY : BOOLEAN]
  /\ leonardo = [pendingCap |-> MaxPending]
  /\ stories = {}
  /\ story_images = {}
  /\ blobs = {}
  /\ \E user \in {"", Owner}, images \in ImageLists, theme \in Themes,
        remote \in RemoteAnswers :
       req = [IdleReq EXCEPT !.pc = "arrived", !.user = user,
                             !.images = images, !.theme = theme,
                             !.remote = remote]
  /\ trigger = "none"
  /\ calls = [c \in Calls |-> IdleCall]
  /\ view = ClosedView
  /\ deletion = IdleDeletion

NextStory ==
  \/ StoryAuth
  \/ StoryGenerate
  \/ StorySave
  \/ StoryFinish

SpecStory == InitStory /\ [][NextStory]_vars

\* ----------------------------------------------- claims: the story request

\* The request reached the Story Generator: a session and a non-empty image
\* list.
Admitted ==
  req.user # "" /\ req.images.type = "array" /\ Len(req.images.val) > 0

\* The request ended with its story saved.
EndedSaved ==
  /\ req.response.status = 200
  /\ \E s \in stories : s.id = req.response.storyId /\ s.user_id = req.user

\* C2: every request with a non-empty image list, whatever its theme and
\* whatever the text provider does, ends with a saved story and not with an
\* error, unless the save itself fails.
C2_Claim ==
  (req.pc = "responded" /\ Admitted /\ ~req.saveError) => EndedSaved

\* The template the request's theme selects: friendship, family, else
\* adventure.
TemplateFor(theme) ==
  CASE theme = "friendship" -> FriendshipStory
    [] theme = "family"     -> FamilyStory
    [] OTHER                -> AdventureStory

\* C3: whenever the fallback narrative is used, whether the key is absent or
\* the remote call failed, the narrative is the template the request's theme
\* selects.
C3_Claim ==
  (req.fallback /\ req.pc \in {"save", "saved", "responded"}) =>
    req.storyContent = Str(TemplateFor(req.theme))

\* The request was answered with its story saved.
Saved == req.pc = "responded" /\ EndedSaved

\* The background call was made by the handler step that follows the save.
TriggeredAfterSave ==
  [][trigger' # trigger =>
       /\ req.pc = "saved" /\ ~req.saveError
       /\ \E s \in stories : s.id = req.storyId
       /\ trigger' = "sent"]_vars

TriggerDeliver ==
  /\ trigger = "sent"
  /\ calls["background"].pc = "idle"
  /\ trigger' = "delivered"
  /\ calls' = [calls EXCEPT !["background"] =
                 Arrived(req.user, req.storyId, req.content, req.title)]
  /\ UNCHANGED <<env, leonardo, stories, story_images, blobs, req, view, deletion>>

\* Variant: the rejected fetch fails the request that fired it.
TriggerLost_Fails ==
  /\ trigger = "sent"
  /\ trigger' = "lost"
  /\ req' = [req EXCEPT !.response.status = 500,
                        !.response.error = "Failed to generate story"]
  /\ UNCHANGED <<env, leonardo, stories, story_images, blobs, calls, view, deletion>>

\* The fetch rejects; its .catch logs the error.
TriggerLost ==
  /\ trigger = "sent"
  /\ trigger' = "lost"
  /\ UNCHANGED <<env, leonardo, stories, story_images, blobs, req, calls, view, deletion>>

\* The owner's story, once it is saved.
OwnerStories == {s \in stories : s.user_id = Owner}

\* The owner loads /story/[id]: GenerateImagesButton is rendered when the
\* story has no row in story_images.
ViewRender ==
  /\ OwnerStories # {}
  /\ LET story       == CHOOSE s \in OwnerStories : TRUE
         storyImages == {i \in story_images : i.story_id = story.id}
     IN  view' = [pc |-> "rendered", offered |-> (storyImages = {})]
  /\ UNCHANGED <<env, leonardo, stories, story_images, blobs, req, trigger, calls, deletion>>

\* The owner clicks the button of the rendered page: POST /api/generate-images
\* with the props story.id, story.content, story.title.
ViewClick ==
  /\ view.pc = "rendered"
  /\ view.offered
  /\ calls["manual"].pc = "idle"
  /\ LET story == CHOOSE s \in OwnerStories : TRUE
     IN  calls' = [calls EXCEPT !["manual"] =
                     Arrived(Owner, story.id, story.content, story.title)]
  /\ UNCHANGED <<env, leonardo, stories, story_images, blobs, req, trigger, view, deletion>>

\* ------------------------------------- specification: story, then its images

\* The owner's generate-story request arrives; the text key is configured and
\* the provider will answer with a story of one page; the image key is
\* configured or not.
InitPipeline ==
  /\ env \in [OPENROUTER_API_KEY : {TRUE}, LEONARDO_API_KEY : BOOLEAN]
  /\ leonardo = [pendingCap |-> MaxPending]
  /\ stories = {}
  /\ story_images = {}
  /\ blobs = {}
  /\ \E theme \in {"", "friendship"} :
       req = [IdleReq EXCEPT !.pc = "arrived", !.user = Owner, !.images = TwoPhotos,
                             !.theme = theme,
                             !.remote = [outcome |-> "ok",
                                         content |-> OnePageStory]]
  /\ trigger = "none"
  /\ calls = [c \in Calls |-> IdleCall]
  /\ view = ClosedView
  /\ deletion = IdleDeletion

NextPipeline ==
  \/ NextStory
  \/ TriggerDeliver
  \/ TriggerLost
  \/ ViewRender
  \/ ViewClick
  \/ Next

SpecPipeline == InitPipeline /\ [][NextPipeline]_vars

\* ---------------------------------------------------- claims: the pipeline

\* Two invocations of the illustration generator for the same narrative.
SameNarrative ==
  /\ calls["background"].pc # "idle"
  /\ calls["manual"].pc # "idle"
  /\ calls["background"].storyId = calls["manual"].storyId

\* A narrative holds two illustration rows of the same page.
DuplicatePage ==
  \E r1, r2 \in story_images :
    r1 # r2 /\ r1.story_id = r2.story_id /\ r1.page_number = r2.page_number

\* C5: a narrative's illustration generation is invoked at most once, so no
\* two invocations write its rows at the same time and no two of its rows
\* have the same page number, also when the button is offered while the
\* background generation is in flight.
C5_Claim == ~SameNarrative /\ ~DuplicatePage

\* C11: the handler answers with the story's id by the step that follows the
\* save, which nothing can hold up and which writes no illustration; the
\* background invocation of the illustration stage starts only after the
\* answer; and once the answer is given, neither it nor the saved story
\* changes, whatever becomes of the background call and of the illustration
\* stage.
C11_Response ==
  /\ [](req.pc = "saved" => ENABLED StoryFinish)
  /\ [](calls["background"].pc # "idle" => req.pc = "responded")
  /\ [][(req.pc # "responded" /\ req'.pc = "responded"
           /\ req'.response.status = 200) =>
          /\ req.pc = "saved"
          /\ \E s \in stories : s.id = req'.response.storyId
          /\ story_images' = story_images
          /\ calls' = calls]_vars
  /\ [][req.pc = "responded" => (req' = req /\ stories' = stories)]_vars

\* The story was answered and saved, and the background invocation ended
\* without a single illustration.
C11_Witness ==
  /\ Saved
  /\ trigger = "delivered"
  /\ calls["background"].pc = "responded"
  /\ calls["background"].response.images = <<>>
  /\ Len(calls["background"].pages) = 1
  /\ story_images = {}

\* ------------------------------------ specification: the prompts of a body

\* What a story body is made of: white space, a sentence of 10 characters,
\* one of 11, and a line with flagged words in several cases, a flagged word
\* inside longer words and keywords of the hint extractors.
Pieces ==
  { <<" ">>,
    <<"Hi", " ", "the", " ", "toy">>,
    <<"Once", " ", "upon", " ", "a">>,
    <<"\n", "The", " ", "sharp", " ", "KNIFE", " ", "Sword", " ", "knifes", " ",
      "red", "_", "knife", " ", "today", "\n">> }

Separators == {MARKER, "."}

\* The bodies of n pieces.
RECURSIVE BodiesOf(_)
BodiesOf(n) ==
  IF n = 1 THEN Pieces
  ELSE {b \o <<sep>> \o piece :
          b \in BodiesOf(n - 1), sep \in Separators, piece \in Pieces}

\* Bodies of up to MaxPieces pieces, and the marked bodies of up to twice as
\* many pages as there are styles.
Bodies ==
  UNION {BodiesOf(n) : n \in 1..MaxPieces}
    \cup {MarkedBody(n) : n \in 2..(2 * Len(styles))}

\* A title with a keyword of the hint extractors, and one with a flagged word.
Titles == {StoryTitle, <<"The", " ", "Sword">>}

\* The owner's generate-images request for a body and a title arrives.
InitPrompts ==
  /\ env = [OPENROUTER_API_KEY |-> TRUE, LEONARDO_API_KEY |-> TRUE]
  /\ leonardo = [pendingCap |-> MaxPending]
  /\ \E body \in Bodies, title \in Titles :
       /\ stories = {StoryRow(1, Owner, title, body)}
       /\ calls = [c \in Calls |->
                     IF c = "manual" THEN Arrived(Owner, 1, body, title)
                     ELSE IdleCall]
  /\ story_images = {}
  /\ blobs = {}
  /\ req = IdleReq
  /\ trigger = "none"
  /\ view = ClosedView
  /\ deletion = IdleDeletion

\* The handler up to the dispatch of the pages' callbacks.
NextPrompts ==
  \E c \in Calls :
    \/ CallAuth(c)
    \/ CallOwner(c)

SpecPrompts == InitPrompts /\ [][NextPrompts]_vars

\* ------------------------------------------------------ claims: the prompts

\* The invocations that have built their prompts.
Built == {c \in Calls : calls[c].pc = "running"}

HasText(segment) == \E i \in 1..Len(segment) : ~IsSpace(segment[i])

TenOrMore(sentence) == StrLen(Trim(sentence)) >= 10

ElevenOrMore(sentence) == StrLen(Trim(sentence)) >= 11

\* The prompts of invocation c are those of the given segments, in order.
PromptsFollow(c, segments) ==
  /\ Len(calls[c].prompts) = Len(segments)
  /\ \A i \in 1..Len(segments) :
       calls[c].prompts[i].pageContent = safeText(Trim(segments[i]))

\* The segments between markers that have text, in order.
MarkedSegments(body) == SelectSeq(SplitOn(body, MARKER), HasText)

\* C13 as stated: the segments are the marked segments with text when there
\* are at least two of them, and otherwise the sentences of 10 characters or
\* more.
C13_Original ==
  \A c \in Built :
    LET body == calls[c].storyContent
    IN  PromptsFollow(c, IF Len(MarkedSegments(body)) > 1
                         THEN MarkedSegments(body)
                         ELSE SelectSeq(SplitSentences(body), TenOrMore))

\* C13: the segments are the marked segments with text, in order, when there
\* are at least two of them; otherwise they are the pieces between runs of
\* sentence-terminal punctuation that, trimmed, have more than 10 characters:
\* a sentence of exactly 10 characters is discarded, one of 11 is kept.
C13_Amended ==
  \A c \in Built :
    LET body == calls[c].storyContent
    IN  PromptsFollow(c, IF Len(MarkedSegments(body)) > 1
                         THEN MarkedSegments(body)
                         ELSE SelectSeq(SplitSentences(body), ElevenOrMore))

\* A body of a sentence of 10 characters and one of 11 gave one prompt, for
\* the sentence of 11.
C13_Witness ==
  \E c \in Built :
    /\ calls[c].storyContent =
         <<"Hi", " ", "the", " ", "toy", ".", "Once", " ", "upon", " ", "a">>
    /\ Len(calls[c].prompts) = 1
    /\ calls[c].prompts[1].pageContent = <<"once", " ", "upon", " ", "a">>

\* -------------------------------------------- claims: the saved narrative

\* C14: whatever the text provider returned, the body of the story saved for
\* a request with a non-empty image list gives the page splitter at least one
\* segment.
C14_Claim ==
  Saved => Len(splitPages(SavedStory.content)) >= 1

FlaggedSet == {flaggedWords[k] : k \in 1..Len(flaggedWords)}

\* Token i of the text is a whole word: no word character touches it.
WholeWord(text, i) ==
  /\ (i = 1 \/ ~IsWord(text[i - 1]))
  /\ (i = Len(text) \/ ~IsWord(text[i + 1]))

\* The lower-cased text with each whole word of the lexicon replaced by its
\* alternative, everything else as it is.
Softened(lower) ==
  Flatten([i \in 1..Len(lower) |->
             IF lower[i] \in FlaggedSet /\ WholeWord(lower, i)
             THEN replacements(lower[i]) ELSE <<lower[i]>>])

\* C16: the scene text of every prompt is the trimmed segment lower-cased,
\* with each whole word of the lexicon, whatever its case, replaced and all
\* other text unchanged; it holds no term of the lexicon as a whole word and
\* is never empty; an empty or blank input gives "A magical adventure scene",
\* and "a sharp knife and a sword" gives a text without sharp, knife, sword.
C16_Moderate ==
  /\ \A c \in Built :
       LET segments == splitPages(calls[c].storyContent)
       IN  \A i \in 1..Len(calls[c].prompts) :
             LET out == calls[c].prompts[i].pageContent
             IN  /\ out # <<>>
                 /\ out = Softened(ToLowerCase(Trim(segments[i])))
                 /\ \A k \in 1..Len(out) :
                      out[k] \in FlaggedSet => ~WholeWord(out, k)
  /\ safeText(<<>>) = DefaultScene
  /\ safeText(<<" ", "\n", " ">>) = DefaultScene
  /\ safeText(<<"a", " ", "sharp", " ", "knife", " ", "and", " ", "a", " ", "sword">>)
       = <<"a", " ", "pointed", " ", "tool", " ", "and", " ", "a", " ",
           "magic", " ", "wand">>

\* A prompt was built for a segment with flagged words in upper and mixed
\* case and with a flagged word inside longer words.
C16_Witness ==
  \E c \in Built :
    \E i \in 1..Len(calls[c].prompts) :
      calls[c].prompts[i].pageContent =
        <<"the", " ", "pointed", " ", "tool", " ", "magic", " ", "wand", " ",
          "knifes", " ", "red", "_", "knife", " ", "today">>

\* ------------------------------------------------------- claims: the styles

\* The style label of the prompt of 0-based index i.
LabelAt(i) ==
  CASE i % 4 = 0 -> "watercolor"
    [] i % 4 = 1 -> "colored pencil"
    [] i % 4 = 2 -> "gouache"
    [] i % 4 = 3 -> "ink and wash"

\* C17: the prompt of 0-based index i carries entry i mod 4 of the palette,
\* so two prompts carry the same style and composition exactly when their
\* indices differ by a multiple of 4.
C17_Styles ==
  \A c \in Built :
    \A i, j \in 1..Len(calls[c].prompts) :
      /\ calls[c].prompts[i].style.label = LabelAt(i - 1)
      /\ (calls[c].prompts[i].style = calls[c].prompts[j].style)
           <=> (i % 4 = j % 4)
      /\ (calls[c].prompts[i].style.composition
            = calls[c].prompts[j].style.composition) <=> (i % 4 = j % 4)

\* Prompts were built for a story of more than four pages.
C17_Witness ==
  \E c \in Built :
    /\ Len(calls[c].prompts) >= 6
    /\ calls[c].prompts[1].style = calls[c].prompts[5].style
    /\ calls[c].prompts[2].style = calls[c].prompts[6].style
    /\ calls[c].prompts[1].style # calls[c].prompts[4].style

\* -------------------------------------------------------- claims: the hints

\* The title followed by the text, as one text.
TitleAndText(c) ==
  calls[c].storyTitle \o <<" ">> \o Join(splitPages(calls[c].storyContent), " ")

\* C18: the hints of every prompt are the first three matches of the keyword
\* sets in the lower-cased title and text together, so a keyword that occurs
\* only in the title gives a hint.
C18_Claim ==
  \A c \in Built :
    \A i \in 1..Len(calls[c].prompts) :
      /\ Len(calls[c].prompts[i].characterHints) <= 3
      /\ Len(calls[c].prompts[i].settingHints) <= 3
      /\ calls[c].prompts[i].characterHints
           = extractCharacterHints(calls[c].storyTitle, TitleAndText(c))
      /\ calls[c].prompts[i].settingHints
           = extractSettingHints(calls[c].storyTitle, TitleAndText(c))

\* ------------------------------------------------ customization defaults

\* The customizations of the request; "" is an absent field.  Only the theme
\* varies in the model.
CustomizationsOf(request) ==
  [ageGroup |-> "", theme |-> request.theme, length |-> "", tone |-> ""]

\* value || fallback
OrElse(value, default) == IF value # "" THEN value ELSE default

\* The customization values interpolated into the generator's prompt:
\* ${customizations?.length || 'medium'}, ${customizations?.ageGroup || 'all
\* ages'}, ${customizations?.theme || 'friendship, adventure, and wonder'}.
PromptValues(customizations) ==
  [length   |-> OrElse(customizations.length, "medium"),
   ageGroup |-> OrElse(customizations.ageGroup, "all ages"),
   theme    |-> OrElse(customizations.theme, "friendship, adventure, and wonder")]

\* The customization values read by generateFallbackStory.
FallbackValues(customizations) ==
  [theme    |-> OrElse(customizations.theme, "adventure"),
   ageGroup |-> OrElse(customizations.ageGroup, "all ages")]

\* The defaults of the customization form.
DocumentedDefaults ==
  [ageGroup |-> "all ages", theme |-> "adventure", length |-> "medium",
   tone |-> "playful"]

\* C19: for a request that leaves customization fields absent, the value
\* the generator's prompt uses and the value the fallback selector uses for
\* each such field are both the documented default.
C19_Claim ==
  (req.pc \in {"save", "saved", "responded"} /\ Admitted) =>
    LET customizations == CustomizationsOf(req)
        inPrompt   == PromptValues(customizations)
        inFallback == FallbackValues(customizations)
    IN  \A field \in DOMAIN DocumentedDefaults :
          customizations[field] = "" =>
            /\ field \in DOMAIN inPrompt =>
                 inPrompt[field] = DocumentedDefaults[field]
            /\ field \in DOMAIN inFallback =>
                 inFallback[field] = DocumentedDefaults[field]

\* --------------------------------------------------------- claims: the title

\* C20: the title of a saved story is the first non-blank line of the
\* generated text without its heading markup, or "My Magical Story", cut to
\* 100 characters; it is not empty; and the title in the body of the
\* background call is the title that is stored and returned.
C20_Claim ==
  Saved =>
    /\ SavedStory.title # <<>>
    /\ StrLen(SavedStory.title) <= 100
    /\ SavedStory.title = Substring(TitleOf(req.storyContent.val), 100)
    /\ req.response.title = SavedStory.title
    /\ trigger = "sent" => req.title = SavedStory.title

\* ------------------------------------------- claims: moderation of a prompt

\* The text holds a term of the lexicon, in whatever case, as a whole word.
HoldsFlagged(text) ==
  \E k \in 1..Len(text) : LowerTok(text[k]) \in FlaggedSet /\ WholeWord(text, k)

\* C25: no prompt holds a term of the lexicon as a whole word in a part that
\* comes from the caller's or the generator's text: neither in its scene
\* text nor in its quoted story title.
C25_Claim ==
  \A c \in Built :
    \A i \in 1..Len(calls[c].prompts) :
      /\ ~HoldsFlagged(calls[c].prompts[i].pageContent)
      /\ ~HoldsFlagged(calls[c].prompts[i].title)

\* ------------------------------------------------ reader and printable export

\* content.split('---PAGE BREAK---').filter(page => page.trim().length > 0)
pageContents(content) == SelectSeq(SplitOn(content, MARKER), NonBlank)

\* StorybookReader's story pages (the cover, page 0, left out): page index + 1
\* with the trimmed text.  The matching image is not part of the model.
StorybookReader(content) ==
  [index \in 1..Len(pageContents(content)) |->
     [pageNumber |-> (index - 1) + 1,
      content    |-> Trim(pageContents(content)[index])]]

\* generatePrintableHTML's story pages (the cover left out).
generatePrintableHTML(content) ==
  [index \in 1..Len(pageContents(content)) |->
     [pageNumber |-> (index - 1) + 1,
      content    |-> Trim(pageContents(content)[index])]]

\* C26: for every narrative body the prompt builder derives as many segments
\* as the reader and the printable export show story pages, and segment i is
\* the text of displayed page i, so the page number of every prompt names a
\* displayed page; also for a body without marker or with a single marked
\* segment.
C26_Claim ==
  \A c \in Built :
    \A story \in {s \in stories : s.id = calls[c].storyId} :
      LET segments == splitPages(calls[c].storyContent)
          shown    == StorybookReader(story.content)
          printed  == generatePrintableHTML(story.content)
      IN  /\ Len(segments) = Len(shown)
          /\ Len(segments) = Len(printed)
          /\ \A i \in 1..Len(calls[c].prompts) :
               /\ i \in {shown[k].pageNumber : k \in 1..Len(shown)}
               /\ i \in {printed[k].pageNumber : k \in 1..Len(printed)}
               /\ Trim(segments[i]) = shown[i].content
               /\ Trim(segments[i]) = printed[i].content

\* ------------------------------------------ claims: the request's validation

\* The request has no caller, or its image list is missing, not a list or
\* empty.
Invalid ==
  \/ req.user = ""
  \/ req.images = Undefined
  \/ req.images.type # "array"
  \/ req.images.val = <<>>

\* C22: a request without caller, or whose image list is missing, not a list
\* or empty, is answered by the handler's first step with 401 (no caller) or
\* 400 "No images provided"; the text generator is never asked, no story is
\* saved and no illustration call is triggered.
C22_Validation ==
  /\ [](Invalid =>
          /\ req.pc \in {"arrived", "responded"}
          /\ req.storyContent = Undefined
          /\ ~req.storyGenerationSuccessful
          /\ stories = {} /\ story_images = {} /\ blobs = {}
          /\ trigger = "none"
          /\ \A c \in Calls : calls[c] = IdleCall
          /\ req.pc = "responded" =>
               /\ req.response.storyId = 0
               /\ req.response.status = IF req.user = "" THEN 401 ELSE 400
               /\ req.response.status = 400 =>
                    req.response.error = "No images provided")
  /\ [](~Invalid => (req.pc # "arrived" => req.pc # "responded"
                       \/ req.response.status \notin {400, 401}))

\* A signed-in request whose images value is a string was answered 400.
C22_Witness ==
  /\ req.user = Owner
  /\ req.images = Str(<<"photo-1">>)
  /\ req.pc = "responded"
  /\ req.response.status = 400

\* ----------------------------------------------------- delete-story handler

DeleteRespond(status, error) ==
  deletion' = [deletion EXCEPT !.pc = "responded",
                               !.response = [status |-> status, error |-> error]]

\* getUser, then the body check: 401, 400, or on to the ownership check.
DeleteAuth ==
  /\ deletion.pc = "arrived"
  /\ IF deletion.user = "" THEN DeleteRespond(401, "Unauthorized")
     ELSE IF deletion.storyId = 0 THEN DeleteRespond(400, "Story ID is required")
          ELSE deletion' = [deletion EXCEPT !.pc = "owner"]
  /\ UNCHANGED <<env, leonardo, stories, story_images, blobs, req, trigger,
                 calls, view>>

\* select id from stories where id = storyId and user_id = user.id
DeleteOwner ==
  /\ deletion.pc = "owner"
  /\ IF ~OwnedStory(deletion.storyId, deletion.user)
     THEN DeleteRespond(404, "Story not found or access denied")
     ELSE deletion' = [deletion EXCEPT !.pc = "images"]
  /\ UNCHANGED <<env, leonardo, stories, story_images, blobs, req, trigger,
                 calls, view>>

\* delete from story_images where story_id = storyId; its error is logged and
\* the handler goes on.
DeleteImages ==
  /\ deletion.pc = "images"
  /\ \E imagesDeleteError \in BOOLEAN :
       /\ deletion' = [deletion EXCEPT !.pc = "story",
                                       !.imagesDeleteError = imagesDeleteError]
       /\ story_images' =
            IF imagesDeleteError THEN story_images
            ELSE {r \in story_images : r.story_id # deletion.storyId}
  /\ UNCHANGED <<env, leonardo, stories, blobs, req, trigger, calls, view>>

\* The rows of story_images left when the stories in `gone` are deleted:
\* story_id references stories(id) ON DELETE CASCADE.
Cascade(images, gone) ==
  {r \in images : \A s \in gone : r.story_id # s.id}

\* Variant: the rows of a deleted story stay.
DeleteStory_NoCascade ==
  /\ deletion.pc = "story"
  /\ \/ /\ DeleteRespond(500, "Failed to delete story")
        /\ UNCHANGED <<stories, story_images>>
     \/ /\ stories' = {s \in stories : ~(s.id = deletion.storyId
                                           /\ s.user_id = deletion.user)}
        /\ UNCHANGED story_images
        /\ DeleteRespond(200, "")
  /\ UNCHANGED <<env, leonardo, blobs, req, trigger, calls, view>>

\* delete from stories where id = storyId and user_id = user.id: its error
\* answers 500, else the story and, by the cascade, its images are gone and
\* the answer is success.
DeleteStory ==
  /\ deletion.pc = "story"
  /\ \/ /\ DeleteRespond(500, "Failed to delete story")
        /\ UNCHANGED <<stories, story_images>>
     \/ LET gone == {s \in stories : s.id = deletion.storyId
                                       /\ s.user_id = deletion.user}
        IN  /\ stories' = stories \ gone
            /\ story_images' = Cascade(story_images, gone)
            /\ DeleteRespond(200, "")
  /\ UNCHANGED <<env, leonardo, blobs, req, trigger, calls, view>>

\* ---------------------- specification: a deletion beside an illustration batch

\* Story 1 of the owner has one or two pages.  A generate-images request and a
\* delete-story request arrive, each from any caller and for the owner's
\* story, for a story that does not exist (2) or without a story id (0).
InitDelete ==
  /\ env \in [OPENROUTER_API_KEY : {TRUE}, LEONARDO_API_KEY : BOOLEAN]
  /\ leonardo = [pendingCap |-> MaxPending]
  /\ \E n \in {1, 2} :
       /\ stories = {StoryRow(1, Owner, StoryTitle, BodyOf(n))}
       /\ \E user \in Users, storyId \in {0, 1, 2} :
            calls = [c \in Calls |->
                       IF c = "manual"
                       THEN Arrived(user, storyId, BodyOf(n), StoryTitle)
                       ELSE IdleCall]
  /\ \E user \in Users, storyId \in {0, 1, 2} :
       deletion = [IdleDeletion EXCEPT !.pc = "arrived", !.user = user,
                                       !.storyId = storyId]
  /\ story_images = {}
  /\ blobs = {}
  /\ req = IdleReq
  /\ trigger = "none"
  /\ view = ClosedView

NextDelete ==
  \/ DeleteAuth
  \/ DeleteOwner
  \/ DeleteImages
  \/ DeleteStory
  \/ Next

SpecDelete == InitDelete /\ [][NextDelete]_vars

\* ------------------------------------------------- claims: not-found requests

\* A signed-in request names a story that never exists (2), or the owner's
\* story (1) on behalf of another user.
NoSuchStory(user, storyId) == user # "" /\ storyId = 2

NotOwned(user, storyId) == user \notin {"", Owner} /\ storyId = 1

Unfound(user, storyId) == NoSuchStory(user, storyId) \/ NotOwned(user, storyId)

\* C21: a generate-images request and a delete-story request for a story
\* that does not exist, or that another user owns, end with one and the same
\* answer in both cases (404 "Story not found", 404 "Story not found or
\* access denied"); the request never gets past the ownership check, so no
\* prompt is built and no page dispatched, and none of its steps changes the
\* stories, the illustration records or the blob store.
C21_NotFound ==
  /\ [](\A c \in Calls :
          Unfound(calls[c].user, calls[c].storyId) =>
            /\ calls[c].pc \in {"arrived", "owner", "responded"}
            /\ calls[c].prompts = <<>> /\ calls[c].pages = <<>>
            /\ calls[c].pc = "responded" =>
                 calls[c].response = [status |-> 404, images |-> <<>>])
  /\ [](Unfound(deletion.user, deletion.storyId) =>
          /\ deletion.pc \in {"arrived", "owner", "responded"}
          /\ deletion.pc = "responded" =>
               deletion.response =
                 [status |-> 404, error |-> "Story not found or access denied"])
  /\ [][\A c \in Calls :
          (Unfound(calls[c].user, calls[c].storyId) /\ calls'[c] # calls[c]) =>
            (stories' = stories /\ story_images' = story_images
               /\ blobs' = blobs)]_vars
  /\ [][(Unfound(deletion.user, deletion.storyId) /\ deletion' # deletion) =>
          (stories' = stories /\ story_images' = story_images
             /\ blobs' = blobs)]_vars

\* Another user's generate-images request for the owner's story and the
\* owner's delete request for a story that does not exist were both answered,
\* and the owner's story is still there.
C21_Witness ==
  /\ NotOwned(calls["manual"].user, calls["manual"].storyId)
  /\ calls["manual"].pc = "responded"
  /\ calls["manual"].response.status = 404
  /\ NoSuchStory(deletion.user, deletion.storyId)
  /\ deletion.user = Owner
  /\ deletion.pc = "responded"
  /\ deletion.response.status = 404
  /\ \E s \in stories : s.id = 1

\* ------------------------------------------------------ claims: the deletion

\* The rows that reference the story of the delete request.
ImagesOfDeleted == {r \in story_images : r.story_id = deletion.storyId}

\* C24: the delete handler checks the caller, then the ownership, then
\* deletes the story's illustration records, then the story; it answers
\* success only to the owner, and in every state in which success has been
\* answered the story and every illustration record that references it are
\* gone, also while a generate-images call for the story goes on.
C24_Deletion ==
  /\ [](deletion.pc = "responded" /\ deletion.response.status = 200 =>
          /\ deletion.user = Owner
          /\ \A s \in stories : s.id # deletion.storyId
          /\ ImagesOfDeleted = {})
  /\ [](deletion.pc \in {"images", "story"} =>
          deletion.user # "" /\ OwnedStory(deletion.storyId, deletion.user))
  /\ [][deletion' # deletion =>
          /\ <<deletion.pc, deletion'.pc>> \in
               { <<"arrived", "responded">>, <<"arrived", "owner">>,
                 <<"owner", "responded">>, <<"owner", "images">>,
                 <<"images", "story">>, <<"story", "responded">> }
          /\ deletion.pc \in {"arrived", "owner"} =>
               (stories' = stories /\ story_images' = story_images)
          /\ deletion.pc = "images" =>
               /\ stories' = stories
               /\ story_images' \subseteq story_images
               /\ ~deletion'.imagesDeleteError =>
                    \A r \in story_images' : r.story_id # deletion.storyId
          /\ blobs' = blobs /\ calls' = calls]_vars

\* The story was deleted while a page of a generate-images call for it stood
\* before its insert, and no row is left although a page of the call had
\* returned its row.
C24_Witness ==
  /\ deletion.pc = "responded"
  /\ deletion.response.status = 200
  /\ calls["manual"].pc = "running"
  /\ calls["manual"].storyId = deletion.storyId
  /\ Len(calls["manual"].pages) = 2
  /\ calls["manual"].pages[1].result # <<>>
  /\ calls["manual"].pages[2].pc = "insert"
  /\ story_images = {}

\* ------------------------------------------- claims: two calls for one story

\* Every page of the invocation returned its row.
AllPersist(c) ==
  \A p \in 1..Len(calls[c].pages) : calls[c].pages[p].result # <<>>

\* Both invocations were made for the same narrative and answered, and every
\* page of both persisted.
TwiceDone ==
  /\ SameNarrative
  /\ \A c \in Calls : Answered(c) /\ AllPersist(c)

\* C23: when the illustration stage has run twice for a narrative of N page
\* segments, one run after or beside the other, and every page of both runs
\* persisted, the narrative holds 2N records, two for each page number 1..N,
\* and each run returned its own N records.
C23_Twice ==
  TwiceDone =>
    LET N    == Len(splitPages(calls["manual"].storyContent))
        rows == {r \in story_images : r.story_id = calls["manual"].storyId}
    IN  /\ Cardinality(rows) = 2 * N
        /\ \A n \in 1..N : Cardinality({r \in rows : r.page_number = n}) = 2
        /\ \A c \in Calls :
             /\ Len(calls[c].response.images) = N
             /\ \A i \in 1..N : calls[c].response.images[i].id[1] = c

\* Both runs persisted their page and the narrative holds two records of
\* page 1.
C23_Witness ==
  /\ TwiceDone
  /\ Cardinality(story_images) = 2
  /\ \A r \in story_images : r.page_number = 1

\* ------------------------------------------------ claims: the stage's effects

\* C28: a step of the illustration stage leaves the stories as they are and
\* every illustration record that exists as it is: it adds at most one
\* record; and a page that has returned its row or null never changes.
C28_Frame ==
  /\ [][calls' # calls =>
          /\ stories' = stories
          /\ story_images \subseteq story_images'
          /\ Cardinality(story_images') <= Cardinality(story_images) + 1]_vars
  /\ [][\A c \in Calls : \A p \in 1..Len(calls[c].pages) :
          (calls[c].pages[p].pc = "done" /\ calls'[c].pc # "idle") =>
            calls'[c].pages[p] = calls[c].pages[p]]_vars
  /\ [][story_images' # story_images =>
          \E c \in Calls : \E p \in 1..Len(calls[c].pages) :
            /\ calls[c].pages[p].pc = "insert"
            /\ calls'[c].pages[p].result # <<>>
            /\ story_images' = story_images \cup {calls'[c].pages[p].result[1]}]_vars

\* A second record of page 1 was added beside the first, and the saved story
\* is as it was saved.
C28_Witness ==
  /\ Saved
  /\ SavedStory = StoryRow(req.storyId, req.user, req.title, req.content)
  /\ \E r1, r2 \in story_images :
       r1.id[1] = "background" /\ r2.id[1] = "manual"
         /\ r1.page_number = r2.page_number

\* ------------------------------------------------- claims: the page's record

\* C29: the prompts of a batch are those built from its body; the record a
\* page returns, and every record in the table, carries the page's 1-based
\* index as its page number and the prompt built for that index as its
\* prompt, also when the image came from the retry with the generic prompt;
\* and an answered batch returns its records in page order.
C29_Records ==
  /\ \A c \in Calls :
       (calls[c].pc = "running"
          /\ \A p \in 1..Len(calls[c].pages) : calls[c].pages[p].pc = "start") =>
         calls[c].prompts = generateImagePrompts(calls[c].storyContent,
                                                 calls[c].storyTitle)
  /\ \A cp \in Dispatched :
       PageOf(cp).result # <<>> =>
         LET row == PageOf(cp).result[1]
         IN  /\ row.page_number = (cp[2] - 1) + 1
             /\ row.prompt = calls[cp[1]].prompts[cp[2]]
             /\ row.prompt # genericPrompt
             /\ row.story_id = calls[cp[1]].storyId
  /\ \A r \in story_images :
       /\ <<r.id[1], r.page_number>> \in Dispatched
       /\ r.prompt = calls[r.id[1]].prompts[r.page_number]
  /\ \A c \in Calls :
       Answered(c) =>
         LET images == calls[c].response.images
         IN  /\ \A i, j \in 1..Len(images) :
                  i < j => images[i].page_number < images[j].page_number
             /\ \A i \in 1..Len(images) :
                  images[i] = calls[c].pages[images[i].page_number].result[1]

\* The second page has returned its row, its image generated from the generic
\* prompt, while the first page has not been submitted yet.
C29_Witness ==
  \E c \in Calls :
    /\ calls[c].pc = "running"
    /\ Len(calls[c].pages) = 2
    /\ calls[c].pages[1].pc = "start"
    /\ calls[c].pages[2].pc = "done"
    /\ calls[c].pages[2].generic
    /\ calls[c].pages[2].cause = "generated"
    /\ calls[c].pages[2].result # <<>>
    /\ calls[c].pages[2].result[1].page_number = 2

\* ---------------------------------------------- claims: the status answers

Returning ==
  \A c \in Calls :
    /\ WF_vars(CallRespond(c))
    /\ \A p \in 1..MaxPages : WF_vars(PageStep(c, p))

\* The batches of concurrent pages and the one-page batch with full polling.
InitSettle == Init \/ InitPolling

SpecSettle == InitSettle /\ [][Next]_vars /\ Returning

\* ------------------------------------------------------ claims: settling

\* The pages of some invocation have been dispatched and it has not answered.
InFlight == \E c \in Calls : calls[c].pc = "running"

\* No invocation is under way, and every page that was dispatched has
\* returned.
Settled ==
  /\ ~InFlight
  /\ \A cp \in Dispatched : PageOf(cp).pc = "done"

\* Every invocation that dispatched its pages is answered, every page having
\* returned.
Settles == InFlight ~> Settled

\* No page is submitted more than twice or polled more than 30 times for one
\* submission.
WithinBounds ==
  \A cp \in Dispatched :
    /\ PageOf(cp).subs <= 2
    /\ PageOf(cp).polls <= maxAttempts
    /\ PageOf(cp).attempts < maxAttempts

\* A page that has returned has an illustration: the generated image or the
\* placeholder.
HasOutcome ==
  \A cp \in Dispatched :
    PageOf(cp).pc = "done" =>
      /\ PageOf(cp).result # <<>>
      /\ PageOf(cp).cause \in {"generated", "failed", "timeout"}

\* C27: when every request returns, every started illustration stage is
\* answered in the end, each of its pages having reached its generated image
\* or the placeholder after at most two submissions and at most 30 status
\* requests for each.
C27_Claim == Settles /\ []WithinBounds /\ []HasOutcome

====
